---- MODULE Spec2Model ----
(***************************************************************************)
(* Ruleset resolution of src/rulesets/reader.ts: readRuleset walks the     *)
(* requested URIs, processRuleset walks the extends graph of each one      *)
(* behind the processedRulesets guard, merging rules, functions and        *)
(* exceptions on the way back up.                                          *)
(*                                                                         *)
(* Ruleset identities are opaque strings to the program (it only compares  *)
(* them and hands them to its collaborators), so they are numbered 1..N in *)
(* order of first mention.  The documents behind the identities are the    *)
(* program's input: the content of a document is drawn when the program    *)
(* first fetches it and is the same on every later fetch.                  *)
(***************************************************************************)
EXTENDS Integers, Sequences, FiniteSets, TLC

VARIABLES
    uris,               \* readRuleset's argument, an array of URIs
    docs,               \* identity -> the ruleset document stored there
    uriIdx,             \* readRuleset: position of the for loop in the URI set
    processedRulesets,  \* readRuleset: the Set shared by all processRuleset calls
    base,               \* readRuleset: the accumulated ruleset
    stack,              \* the chain of suspended processRuleset calls, innermost last
    ret,                \* the value the innermost finished call resolved with
    status,             \* "running", "returned" or "failed" (the promise of readRuleset)
    error,              \* the error thrown: its kind and the depth of the call that threw
    result,             \* the ruleset readRuleset resolved with
    warnings,           \* function names reported through console.warn
    fetched,            \* identity -> generate calls in the current top-level run
    calls,              \* identity -> processRuleset calls that reached it in this run
    nulls,              \* identity -> processRuleset calls that returned null for it
    resolved,           \* identity -> what processRuleset(uri, uri) resolved with for that URI
    call,               \* the number of the readRuleset call under way
    first,              \* the URIs, the result and the per-URI rulesets of the first call
    availableModules,   \* createFakeRequire: generated module path -> source
    evaluatedModules,   \* createFakeRequire: path -> the exports of an evaluated module
    loading,             \* the chain of module evaluations under way, innermost last
    evaluations,        \* generated module path -> times its source was run
    lastRequire,        \* the path of the last require call and the number of calls so far
    answer,             \* the value the last require call that returned has returned
    thrown,             \* the error a require call threw
    topRequires         \* the require calls made from outside the modules

readerVars == <<uris, docs, uriIdx, processedRulesets, base, stack, ret, status,
                error, result, warnings, fetched, calls, nulls, resolved, call, first>>

loaderVars == <<availableModules, evaluatedModules, loading, evaluations, lastRequire,
                answer, thrown, topRequires>>

vars == <<readerVars, loaderVars>>

----------------------------------------------------------------------------
(* Bounds *)

(* The size of the input: one for every URI after the first, one for     *)
(* every bare extends entry and bare function name, two for every        *)
(* [uri, severity] and [name, schema] pair.                              *)
MaxWeight == 4

(* The depth of nested require calls at which the engine's call stack is  *)
(* exhausted.                                                             *)
MaxDepth == 3

NumIds == MaxWeight + 1
Ids == 1..NumIds

----------------------------------------------------------------------------
(* Values *)

Undef == "undefined"
EdgeSeverities == {"off", "error"}

Max(a, b) == IF a >= b THEN a ELSE b
Min(a, b) == IF a <= b THEN a ELSE b

RECURSIVE SetMax(_)
SetMax(S) == IF S = {} THEN 0
             ELSE LET x == CHOOSE y \in S : TRUE IN Max(x, SetMax(S \ {x}))

Range(s) == {s[i] : i \in 1..Len(s)}

(* A rule of a rule table: the ruleset that defined it, the severity it   *)
(* pins itself (or "none"), the inheritance argument of the last          *)
(* mergeRules call that wrote it and the ruleset whose formats were last  *)
(* applied to it (0 for none).                                            *)
RuleNames == 0..NumIds
NoRule == [owner |-> 0, pin |-> "none", inh |-> "none", formats |-> 0]
EmptyRules == [n \in RuleNames |-> NoRule]

FnNames == {"f1", "f2"}
Schemas == {"s1", "s2"}
NoFn == [name |-> "none", code |-> "none", schema |-> "none", source |-> <<0, "none">>]
EmptyFunctions == [n \in FnNames |-> NoFn]

EmptyRuleset == [rules |-> EmptyRules, functions |-> EmptyFunctions, exceptions |-> {}]

NoRet == [kind |-> "none", value |-> EmptyRuleset]
NullRet == [kind |-> "null", value |-> EmptyRuleset]
RulesetRet(r) == [kind |-> "ruleset", value |-> r]

NoError == [kind |-> "none", depth |-> 0]

Unread == [known |-> FALSE, extends |-> <<>>, functions |-> <<>>]

----------------------------------------------------------------------------
(* The documents the program may be given *)

(* The rules a document defines itself: every document but the first      *)
(* defines the shared rule 0 without a severity of its own, and every     *)
(* document defines a rule named after itself with severity warn.         *)
OwnRules(id) ==
    [n \in RuleNames |->
        IF n = id THEN [owner |-> id, pin |-> "warn", inh |-> "none", formats |-> 0]
        ELSE IF n = 0 /\ id > 1 THEN [owner |-> id, pin |-> "none", inh |-> "none", formats |-> 0]
        ELSE NoRule]

(* The except field of a document: one entry with a relative location.    *)
OwnExcept(id) == {[decl |-> id, scope |-> 0]}

(* extends entry: sev "none" is the bare string form, otherwise [uri, sev] *)
EdgeWeight(e) == IF e.sev = "none" THEN 1 ELSE 2
(* functions entry: schema "null" is the bare name form, otherwise [name, schema] *)
FnWeight(f) == IF f.schema = "null" THEN 1 ELSE 2

RECURSIVE ExtendsWeight(_)
ExtendsWeight(s) == IF s = <<>> THEN 0 ELSE EdgeWeight(Head(s)) + ExtendsWeight(Tail(s))

RECURSIVE FunctionsWeight(_)
FunctionsWeight(s) == IF s = <<>> THEN 0 ELSE FnWeight(Head(s)) + FunctionsWeight(Tail(s))

DocWeight(d) == ExtendsWeight(d.extends) + FunctionsWeight(d.functions)

RECURSIVE SumWeight(_)
SumWeight(S) == IF S = {} THEN 0
                ELSE LET x == CHOOSE y \in S : TRUE
                     IN DocWeight(docs[x]) + SumWeight(S \ {x})

WeightUsed == (Len(uris) - 1) + SumWeight(Ids)

Mentioned == SetMax(Range(uris) \cup
                    UNION {{docs[i].extends[j].uri : j \in 1..Len(docs[i].extends)} : i \in Ids})

(* extends lists of weight at most n, the targets numbered in order of    *)
(* first mention after the k identities mentioned so far.                 *)
RECURSIVE ExtLists(_, _)
ExtLists(k, n) ==
    {<<>>} \cup
    UNION {{<<e>> \o rest : rest \in ExtLists(Max(k, e.uri), n - EdgeWeight(e))} :
              e \in {x \in [uri : 1..Min(k + 1, NumIds), sev : {"none"} \cup EdgeSeverities] :
                        EdgeWeight(x) <= n}}

(* functions lists of weight at most n, the names in order of first mention *)
RECURSIVE FnLists(_, _)
FnLists(k, n) ==
    {<<>>} \cup
    UNION {{<<f>> \o rest : rest \in FnLists(IF f.name = "f2" THEN 2 ELSE Max(k, 1),
                                             n - FnWeight(f))} :
              f \in {x \in [name : IF k = 0 THEN {"f1"} ELSE FnNames,
                            schema : {"null"} \cup Schemas] : FnWeight(x) <= n}}

(* The documents of weight at most n that may be found when k identities *)
(* have been mentioned.                                                   *)
Documents ==
    [k \in 0..NumIds, n \in 0..MaxWeight |->
        {d \in [known : {TRUE}, extends : ExtLists(k, n), functions : FnLists(0, n)] :
            DocWeight(d) <= n}]

DocChoices == Documents[Mentioned, MaxWeight - WeightUsed]

RECURSIVE UriInputs(_, _)
UriInputs(k, n) ==
    {<<>>} \cup
    (IF n = 0 THEN {}
     ELSE UNION {{<<t>> \o rest : rest \in UriInputs(Max(k, t), n - 1)} : t \in 1..(k + 1)})

----------------------------------------------------------------------------
(* Collaborators *)

(* findFile(from, to): the identity a locator resolves to; a locator is   *)
(* named here by that identity.                                           *)
findFile(from, to) == to

(* mergeRules(target, incoming, severity) *)
mergeRules(target, incoming, severity) ==
    [n \in RuleNames |->
        IF incoming[n] # NoRule
        THEN [incoming[n] EXCEPT !.inh = severity]
        ELSE target[n]]

(* Object.assign(target, source) on a table *)
Assign(target, source, none) ==
    [n \in DOMAIN target |-> IF source[n] # none THEN source[n] ELSE target[n]]

(* mergeFunctions(target, incoming, rules) *)
mergeFunctions(target, incoming, rules) == Assign(target, incoming, NoFn)

(* mergeFormats(rules, formats): the formats of ruleset id on every rule present *)
mergeFormats(rules, id) ==
    [n \in RuleNames |-> IF rules[n] # NoRule THEN [rules[n] EXCEPT !.formats = id]
                         ELSE rules[n]]

(* mergeExceptions(target, incoming, baseUri) *)
mergeExceptions(target, incoming, baseUri) ==
    target \cup {[decl |-> e.decl, scope |-> IF e.scope = 0 THEN baseUri ELSE e.scope] :
                    e \in incoming}

----------------------------------------------------------------------------
(* createFakeRequire: values *)

CreateArrayPath == "json-ref-escodegen/runtime/create-array.cjs"

(* The keys the generated output may hold, and a property name every     *)
(* object literal inherits from Object.prototype.                        *)
Generated == {"./a.cjs", "./b.cjs"}
Inherited == {"constructor"}
Paths == {CreateArrayPath} \cup Generated \cup Inherited

(* A value a module exports: the module and the evaluation that made it. *)
ModuleValue(path, evaluation) == [module |-> path, evaluation |-> evaluation]
createArray == ModuleValue(CreateArrayPath, 0)
ObjectPrototype == [q \in Inherited |-> ModuleValue("Object.prototype", 0)]
Undefined == ModuleValue("undefined", 0)

(* path in object: own and inherited properties *)
In(path, object) == path \in DOMAIN object \/ path \in DOMAIN ObjectPrototype

(* object[path] *)
Get(object, path) ==
    IF path \in DOMAIN object THEN object[path]
    ELSE IF path \in DOMAIN ObjectPrototype THEN ObjectPrototype[path]
    ELSE Undefined

(* object[path] = val *)
Put(object, path, val) ==
    [q \in DOMAIN object \cup {path} |-> IF q = path THEN val ELSE object[q]]

(* The source of a generated module: the require calls it makes and its  *)
(* assignments to module.exports, in the order it runs them.             *)
Statements == [op : {"require"}, path : Paths] \cup {[op |-> "exports", path |-> "module"]}
Sources(n) == UNION {[1..k -> Statements] : k \in 0..n}

RECURSIVE SourceOps(_)
SourceOps(output) ==
    IF DOMAIN output = {} THEN 0
    ELSE LET q == CHOOSE x \in DOMAIN output : TRUE
         IN Len(output[q]) + SourceOps([x \in DOMAIN output \ {q} |-> output[x]])

(* The outputs generate may write: the statements weigh one each. *)
Outputs ==
    UNION {{output \in [S -> Sources(MaxWeight - 1)] : SourceOps(output) <= MaxWeight - 1} :
              S \in SUBSET Generated}

NotLoading == <<>>
NoThrow == [kind |-> "none", path |-> "none"]
NoRequire == [path |-> "none", n |-> 0]

(* No loader at work. *)
LoaderIdle ==
    /\ availableModules = <<>>
    /\ evaluatedModules = [q \in {CreateArrayPath} |-> createArray]
    /\ loading = NotLoading
    /\ evaluations = [q \in Generated |-> 0]
    /\ lastRequire = NoRequire
    /\ answer = Undefined
    /\ thrown = NoThrow
    /\ topRequires = 0

----------------------------------------------------------------------------
(* readRuleset *)

RECURSIVE Dedup(_)
Dedup(s) == IF s = <<>> THEN <<>>
            ELSE LET front == Dedup(SubSeq(s, 1, Len(s) - 1))
                     x == s[Len(s)]
                 IN IF x \in Range(front) THEN front ELSE Append(front, x)

UriSet == Dedup(uris)

NewCall(baseUri, uri, severity) ==
    [baseUri |-> baseUri, uri |-> uri, severity |-> severity, rulesetUri |-> 0,
     pc |-> "find", ruleset |-> Unread, idx |-> 0, parentSeverity |-> Undef,
     rules |-> EmptyRules, functions |-> EmptyFunctions, exceptions |-> {},
     tasks |-> <<>>, resolvedFunctions |-> EmptyFunctions]

Zero == [i \in Ids |-> 0]

Unresolved == [i \in Ids |-> NoRet]

NoCall == [uris |-> <<>>, result |-> EmptyRuleset, resolved |-> Unresolved]

Init ==
    /\ uris \in (UriInputs(0, MaxWeight + 1) \ {<<>>})
    /\ LoaderIdle
    /\ docs = [i \in Ids |-> Unread]
    /\ uriIdx = 1
    /\ processedRulesets = {}
    /\ base = EmptyRuleset
    /\ stack = <<>>
    /\ ret = NoRet
    /\ status = "running"
    /\ error = NoError
    /\ result = EmptyRuleset
    /\ warnings = {}
    /\ fetched = Zero
    /\ calls = Zero
    /\ nulls = Zero
    /\ resolved = Unresolved
    /\ call = 1
    /\ first = NoCall

Top == stack[Len(stack)]
SetTop(f) == [stack EXCEPT ![Len(stack)] = f]
Pop == SubSeq(stack, 1, Len(stack) - 1)

ClearedKeeps(processed) == processed

(* processedRulesets.clear() *)
Cleared(processed) == {}

(* for (const uri of ...) { processedRulesets.clear(); processRuleset(uri, uri) *)
StartUri ==
    /\ status = "running" /\ stack = <<>> /\ ret = NoRet
    /\ uriIdx <= Len(UriSet)
    /\ processedRulesets' = Cleared(processedRulesets)
    /\ stack' = <<NewCall(UriSet[uriIdx], UriSet[uriIdx], Undef)>>
    /\ fetched' = Zero /\ calls' = Zero /\ nulls' = Zero
    /\ UNCHANGED <<loaderVars, call, first, resolved, uris, docs, uriIdx, base, ret, status, error, result, warnings>>

(* if (resolvedRuleset === null) continue; Object.assign(base.rules, ...) etc. *)
UnionResult ==
    /\ status = "running" /\ stack = <<>> /\ ret # NoRet
    /\ base' = IF ret.kind = "null" THEN base
               ELSE [rules |-> Assign(base.rules, ret.value.rules, NoRule),
                     functions |-> Assign(base.functions, ret.value.functions, NoFn),
                     exceptions |-> base.exceptions \cup ret.value.exceptions]
    /\ resolved' = [resolved EXCEPT ![UriSet[uriIdx]] = ret]
    /\ uriIdx' = uriIdx + 1
    /\ ret' = NoRet
    /\ UNCHANGED <<loaderVars, call, first, uris, docs, processedRulesets, stack, status, error, result,
                   warnings, fetched, calls, nulls>>

(* return base *)
ReturnBase ==
    /\ status = "running" /\ stack = <<>> /\ ret = NoRet
    /\ uriIdx > Len(UriSet)
    /\ status' = "returned"
    /\ result' = base
    /\ UNCHANGED <<loaderVars, call, first, resolved, uris, docs, uriIdx, processedRulesets, base, stack, ret, error,
                   warnings, fetched, calls, nulls>>

RejectSkipsUri(frames) == [stack |-> <<>>, status |-> "running", ret |-> NullRet]

RejectSkipsEdge(frames) ==
    IF Len(frames) = 1 THEN [stack |-> <<>>, status |-> "failed", ret |-> NoRet]
    ELSE [stack |-> SubSeq(frames, 1, Len(frames) - 1), status |-> "running", ret |-> NullRet]

(* An error thrown in a processRuleset call: neither the calls awaiting   *)
(* it (await processRuleset(...) in the extends loop) nor readRuleset     *)
(* (await processRuleset(uri, uri)) handle it, so every call on the chain *)
(* rejects and the promise of readRuleset rejects with it.                *)
Reject(frames) == [stack |-> <<>>, status |-> "failed", ret |-> NoRet]

Throw(kind) ==
    /\ stack' = Reject(stack).stack
    /\ status' = Reject(stack).status
    /\ ret' = Reject(stack).ret
    /\ error' = [kind |-> kind, depth |-> Len(stack)]

----------------------------------------------------------------------------
(* processRuleset *)

Running == status = "running" /\ stack # <<>>

(* findFile(join(baseUri, '..'), uri) resolves; has(rulesetUri) ? return null : add *)
GuardRejectsNever(processed, rulesetUri) == FALSE

GuardRejects(processed, rulesetUri) == rulesetUri \in processed

MarkProcessedNever(processed, rulesetUri) == processed

(* processedRulesets.add(rulesetUri), before generate and the extends loop *)
MarkProcessed(processed, rulesetUri) == processed \cup {rulesetUri}

FindRuleset ==
    /\ Running /\ Top.pc = "find"
    /\ LET rulesetUri == findFile(Top.baseUri, Top.uri) IN
       /\ calls' = [calls EXCEPT ![rulesetUri] = @ + 1]
       /\ IF GuardRejects(processedRulesets, rulesetUri)
          THEN /\ stack' = Pop
               /\ ret' = NullRet
               /\ nulls' = [nulls EXCEPT ![rulesetUri] = @ + 1]
               /\ UNCHANGED processedRulesets
          ELSE /\ processedRulesets' = MarkProcessed(processedRulesets, rulesetUri)
               /\ stack' = SetTop([Top EXCEPT !.rulesetUri = rulesetUri, !.pc = "generate"])
               /\ UNCHANGED <<ret, nulls>>
    /\ UNCHANGED <<loaderVars, call, first, resolved, uris, docs, uriIdx, base, status, error, result, warnings, fetched>>

(* findFile rejects: no document matches the locator *)
FindRulesetFails ==
    /\ Running /\ Top.pc = "find"
    /\ Throw("not-found")
    /\ UNCHANGED <<loaderVars, call, first, resolved, uris, docs, uriIdx, processedRulesets, base, result, warnings,
                   fetched, calls, nulls>>

(* generate(...), createFakeRequire(output)(id), assertValidRuleset(...) *)
Generate ==
    /\ Running /\ Top.pc = "generate"
    /\ LET id == Top.rulesetUri IN
       /\ \E d \in (IF docs[id].known THEN {docs[id]} ELSE DocChoices) :
            /\ docs' = [docs EXCEPT ![id] = d]
            /\ stack' = SetTop([Top EXCEPT !.ruleset = d, !.pc = "extends", !.idx = 1])
       /\ fetched' = [fetched EXCEPT ![id] = @ + 1]
    /\ UNCHANGED <<loaderVars, call, first, resolved, uris, uriIdx, processedRulesets, base, ret, status, error, result,
                   warnings, calls, nulls>>

(* generate rejects, require throws or assertValidRuleset throws *)
GenerateFails ==
    /\ Running /\ Top.pc = "generate"
    /\ \E kind \in {"invalid-shape", "module-not-found"} : Throw(kind)
    /\ UNCHANGED <<loaderVars, call, first, resolved, uris, docs, uriIdx, processedRulesets, base, result, warnings,
                   fetched, calls, nulls>>

EdgesDoneAfterFirst(f) == f.idx > Min(1, Len(f.ruleset.extends))

(* for (const extended of ...): the loop has gone through every entry *)
EdgesDone(f) == f.idx > Len(f.ruleset.extends)

ParentSeverityIgnoresEdge(severity, extended) ==
    IF severity = Undef THEN "recommended" ELSE severity

ParentSeverityEdgeWins(severity, extended) ==
    IF extended.sev # "none" THEN extended.sev
    ELSE IF severity = Undef THEN "recommended" ELSE severity

ParentSeverityBareStaysUndefined(severity, extended) ==
    IF extended.sev # "none"
    THEN IF severity = Undef THEN extended.sev ELSE severity
    ELSE severity

(* parentSeverity of one extends entry *)
ParentSeverity(severity, extended) ==
    IF extended.sev # "none"
    THEN IF severity = Undef THEN extended.sev ELSE severity
    ELSE IF severity = Undef THEN "recommended" ELSE severity

(* for (const extended of extendedRulesets) { ... await processRuleset(rulesetUri, ...) *)
ExtendEdge ==
    /\ Running /\ Top.pc = "extends"
    /\ ~EdgesDone(Top)
    /\ LET extended == Top.ruleset.extends[Top.idx]
           parentSeverity == ParentSeverity(Top.severity, extended)
       IN stack' = Append(SetTop([Top EXCEPT !.pc = "await",
                                             !.parentSeverity = parentSeverity]),
                          NewCall(Top.rulesetUri, extended.uri, parentSeverity))
    /\ UNCHANGED <<loaderVars, call, first, resolved, uris, docs, uriIdx, processedRulesets, base, ret, status, error,
                   result, warnings, fetched, calls, nulls>>

ExtendedMergedKeepsExisting(f, extendedRuleset) ==
    [f EXCEPT !.rules = [n \in RuleNames |->
                            IF @[n] # NoRule THEN @[n]
                            ELSE mergeRules(@, extendedRuleset.rules, f.parentSeverity)[n]],
              !.functions = Assign(@, extendedRuleset.functions, NoFn),
              !.exceptions = mergeExceptions(@, extendedRuleset.exceptions, f.baseUri)]

(* mergeRules(rules, extendedRuleset.rules, parentSeverity); Object.assign(functions, *)
(* extendedRuleset.functions); mergeExceptions(exceptions, ..., baseUri)             *)
ExtendedMerged(f, extendedRuleset) ==
    [f EXCEPT !.rules = mergeRules(@, extendedRuleset.rules, f.parentSeverity),
              !.functions = Assign(@, extendedRuleset.functions, NoFn),
              !.exceptions = mergeExceptions(@, extendedRuleset.exceptions, f.baseUri)]

(* extendedRuleset = await processRuleset(...); if (extendedRuleset !== null) { ... } *)
MergeExtended ==
    /\ Running /\ Top.pc = "await" /\ ret # NoRet
    /\ stack' = SetTop(
         [(IF ret.kind = "null" THEN Top ELSE ExtendedMerged(Top, ret.value))
            EXCEPT !.pc = "extends", !.idx = @ + 1])
    /\ ret' = NoRet
    /\ UNCHANGED <<loaderVars, call, first, resolved, uris, docs, uriIdx, processedRulesets, base, status, error, result,
                   warnings, fetched, calls, nulls>>

OwnSeverityIgnoresCaller(severity) == "recommended"

(* severity === undefined ? 'recommended' : severity *)
OwnSeverity(severity) == IF severity = Undef THEN "recommended" ELSE severity

(* mergeRules(rules, ruleset.rules, ...); mergeExceptions(exceptions, ruleset.except,
   baseUri); mergeFormats(rules, ruleset.formats) *)
MergeOwn ==
    /\ Running /\ Top.pc = "extends"
    /\ EdgesDone(Top)
    /\ LET f == [Top EXCEPT
                    !.rules = mergeFormats(mergeRules(@, OwnRules(Top.rulesetUri),
                                                      OwnSeverity(Top.severity)),
                                           Top.rulesetUri),
                    !.exceptions = mergeExceptions(@, OwnExcept(Top.rulesetUri), Top.baseUri)]
       IN IF Len(Top.ruleset.functions) > 0
          THEN /\ stack' = SetTop([f EXCEPT !.pc = "functions",
                                            !.tasks = [i \in 1..Len(Top.ruleset.functions) |-> "find"]])
               /\ UNCHANGED ret
          ELSE /\ stack' = Pop
               /\ ret' = RulesetRet([rules |-> f.rules, functions |-> f.functions,
                                     exceptions |-> f.exceptions])
    /\ UNCHANGED <<loaderVars, call, first, resolved, uris, docs, uriIdx, processedRulesets, base, status, error, result,
                   warnings, fetched, calls, nulls>>

----------------------------------------------------------------------------
(* The function tasks of Promise.all(rulesetFunctions.map(async fn => ...)) *)

InFunctions == Running /\ Top.pc = "functions"

(* const source = await findFile(rulesetFunctionsBaseDir, `./${fnName}.js`) *)
FnFind(i) ==
    /\ InFunctions /\ i \in DOMAIN Top.tasks /\ Top.tasks[i] = "find"
    /\ stack' = SetTop([Top EXCEPT !.tasks[i] = "read"])
    /\ UNCHANGED <<loaderVars, call, first, resolved, uris, docs, uriIdx, processedRulesets, base, ret, status, error,
                   result, warnings, fetched, calls, nulls>>

(* findFile rejects outside the try block: the task, Promise.all and the call reject *)
FnFindFails(i) ==
    /\ InFunctions /\ i \in DOMAIN Top.tasks /\ Top.tasks[i] = "find"
    /\ Throw("function-not-found")
    /\ UNCHANGED <<loaderVars, call, first, resolved, uris, docs, uriIdx, processedRulesets, base, result, warnings,
                   fetched, calls, nulls>>

ResolvedFunction(rulesetUri, fn) ==
    [name |-> fn.name, code |-> fn.name, schema |-> fn.schema, source |-> <<rulesetUri, fn.name>>]

(* resolvedFunctions[fnName] = { name, code: await readFile(source), schema, source } *)
FnRead(i) ==
    /\ InFunctions /\ i \in DOMAIN Top.tasks /\ Top.tasks[i] = "read"
    /\ LET fn == Top.ruleset.functions[i] IN
       stack' = SetTop([Top EXCEPT !.tasks[i] = "done",
                                   !.resolvedFunctions[fn.name] =
                                        ResolvedFunction(Top.rulesetUri, fn)])
    /\ UNCHANGED <<loaderVars, call, first, resolved, uris, docs, uriIdx, processedRulesets, base, ret, status, error,
                   result, warnings, fetched, calls, nulls>>

(* catch (ex) { console.warn(...) } *)
FnReadFails(i) ==
    /\ InFunctions /\ i \in DOMAIN Top.tasks /\ Top.tasks[i] = "read"
    /\ stack' = SetTop([Top EXCEPT !.tasks[i] = "warned"])
    /\ warnings' = warnings \cup {Top.ruleset.functions[i].name}
    /\ UNCHANGED <<loaderVars, call, first, resolved, uris, docs, uriIdx, processedRulesets, base, ret, status, error,
                   result, fetched, calls, nulls>>

(* mergeFunctions(functions, resolvedFunctions, rules); return newRuleset *)
MergeFunctions ==
    /\ InFunctions /\ \A i \in DOMAIN Top.tasks : Top.tasks[i] \in {"done", "warned"}
    /\ stack' = Pop
    /\ ret' = RulesetRet([rules |-> Top.rules,
                          functions |-> mergeFunctions(Top.functions, Top.resolvedFunctions,
                                                       Top.rules),
                          exceptions |-> Top.exceptions])
    /\ UNCHANGED <<loaderVars, call, first, resolved, uris, docs, uriIdx, processedRulesets, base, status, error, result,
                   warnings, fetched, calls, nulls>>

----------------------------------------------------------------------------

Next ==
    \/ StartUri
    \/ UnionResult
    \/ ReturnBase
    \/ FindRuleset
    \/ FindRulesetFails
    \/ Generate
    \/ GenerateFails
    \/ ExtendEdge
    \/ MergeExtended
    \/ MergeOwn
    \/ \E i \in 1..MaxWeight : FnFind(i)
    \/ \E i \in 1..MaxWeight : FnFindFails(i)
    \/ \E i \in 1..MaxWeight : FnRead(i)
    \/ \E i \in 1..MaxWeight : FnReadFails(i)
    \/ MergeFunctions

Spec == Init /\ [][Next]_vars

(* A second readRuleset call after the first has returned, for the same  *)
(* URIs or for one of them alone, over the same documents: readRuleset   *)
(* builds base, the Set and the processor anew, nothing else is shared.  *)
ReadAgain ==
    /\ status = "returned" /\ call = 1
    /\ \E again \in {uris} \cup {<<UriSet[i]>> : i \in 1..Len(UriSet)} :
         uris' = again
    /\ first' = [uris |-> uris, result |-> result, resolved |-> resolved]
    /\ call' = 2
    /\ base' = EmptyRuleset
    /\ processedRulesets' = {}
    /\ uriIdx' = 1
    /\ status' = "running"
    /\ result' = EmptyRuleset
    /\ resolved' = Unresolved
    /\ fetched' = Zero /\ calls' = Zero /\ nulls' = Zero
    /\ UNCHANGED <<loaderVars, docs, stack, ret, error, warnings>>

SessionNext == Next \/ ReadAgain

SessionSpec == Init /\ [][SessionNext]_vars

(* One logical thread runs every continuation that is ready, and every    *)
(* collaborator settles: some step is taken as long as one is possible.   *)
FairSpec == Spec /\ WF_vars(Next)

----------------------------------------------------------------------------
(* createFakeRequire(availableModules) and the require function it returns *)

(* const evaluatedModules = { create-array: createArray }; return require  *)
LoaderInit ==
    /\ availableModules \in Outputs
    /\ evaluatedModules = [q \in {CreateArrayPath} |-> createArray]
    /\ loading = NotLoading
    /\ evaluations = [q \in Generated |-> 0]
    /\ lastRequire = NoRequire
    /\ answer = Undefined
    /\ thrown = NoThrow
    /\ topRequires = 0
    /\ uris = <<1>>
    /\ docs = [i \in Ids |-> Unread]
    /\ uriIdx = 1
    /\ processedRulesets = {}
    /\ base = EmptyRuleset
    /\ stack = <<>>
    /\ ret = NoRet
    /\ status = "running"
    /\ error = NoError
    /\ result = EmptyRuleset
    /\ warnings = {}
    /\ fetched = Zero
    /\ calls = Zero
    /\ nulls = Zero
    /\ resolved = Unresolved
    /\ call = 1
    /\ first = NoCall

TopFrame == loading[Len(loading)]

(* The statement the innermost evaluation is at, none when it has run to its end. *)
Statement ==
    LET source == availableModules[TopFrame.path]
    IN IF TopFrame.pc <= Len(source) THEN source[TopFrame.pc]
       ELSE [op |-> "end", path |-> "module"]

(* require(path) is called: from outside, or by the statement a module is at *)
Requested(path) ==
    IF loading = NotLoading
    THEN thrown = NoThrow /\ topRequires + SourceOps(availableModules) < MaxWeight
    ELSE Statement = [op |-> "require", path |-> path]

Called(path) ==
    /\ lastRequire' = [path |-> path, n |-> lastRequire.n + 1]
    /\ topRequires' = IF loading = NotLoading THEN topRequires + 1 ELSE topRequires

(* The evaluation continues after the statement it was at. *)
Continued(fs) ==
    IF fs = NotLoading THEN fs ELSE [fs EXCEPT ![Len(fs)].pc = @ + 1]

(* if (path in evaluatedModules) return evaluatedModules[path] *)
RequireEvaluated(path) ==
    /\ Requested(path)
    /\ In(path, evaluatedModules)
    /\ Called(path)
    /\ answer' = Get(evaluatedModules, path)
    /\ loading' = Continued(loading)
    /\ UNCHANGED <<readerVars, availableModules, evaluatedModules, evaluations, thrown>>

(* else if (path in availableModules) { ... Function('require, module', source)(require, module) *)
RequireGenerated(path) ==
    /\ Requested(path)
    /\ ~In(path, evaluatedModules) /\ In(path, availableModules)
    /\ Len(loading) < MaxDepth
    /\ Called(path)
    /\ evaluations' = [evaluations EXCEPT ![path] = @ + 1]
    /\ loading' = Append(loading, [path |-> path, pc |-> 1, evaluation |-> evaluations[path] + 1])
    /\ UNCHANGED <<readerVars, availableModules, evaluatedModules, answer, thrown>>

(* The same call when the call stack is exhausted: a RangeError leaves every *)
(* evaluation under way.                                                     *)
RequireOverflows(path) ==
    /\ Requested(path)
    /\ ~In(path, evaluatedModules) /\ In(path, availableModules)
    /\ Len(loading) = MaxDepth
    /\ Called(path)
    /\ thrown' = [kind |-> "RangeError", path |-> path]
    /\ loading' = NotLoading
    /\ UNCHANGED <<readerVars, availableModules, evaluatedModules, evaluations, answer>>

(* else throw new Error(`${path} does not exist`) *)
RequireMissing(path) ==
    /\ Requested(path)
    /\ ~In(path, evaluatedModules) /\ ~In(path, availableModules)
    /\ Called(path)
    /\ thrown' = [kind |-> "does not exist", path |-> path]
    /\ loading' = NotLoading
    /\ UNCHANGED <<readerVars, availableModules, evaluatedModules, evaluations, answer>>

(* set exports(val) { evaluatedModules[path] = val } *)
SetExports ==
    /\ loading # NotLoading
    /\ Statement.op = "exports"
    /\ evaluatedModules' = Put(evaluatedModules, TopFrame.path,
                               ModuleValue(TopFrame.path, TopFrame.evaluation))
    /\ loading' = Continued(loading)
    /\ UNCHANGED <<readerVars, availableModules, evaluations, lastRequire, answer, thrown,
                   topRequires>>

(* the source has run: return evaluatedModules[path] *)
ReturnExports ==
    /\ loading # NotLoading
    /\ Statement.op = "end"
    /\ answer' = Get(evaluatedModules, TopFrame.path)
    /\ loading' = Continued(SubSeq(loading, 1, Len(loading) - 1))
    /\ UNCHANGED <<readerVars, availableModules, evaluatedModules, evaluations, lastRequire,
                   thrown, topRequires>>

LoaderNext ==
    \/ \E path \in Paths : RequireEvaluated(path)
    \/ \E path \in Paths : RequireGenerated(path)
    \/ \E path \in Paths : RequireOverflows(path)
    \/ \E path \in Paths : RequireMissing(path)
    \/ SetExports
    \/ ReturnExports

LoaderSpec == LoaderInit /\ [][LoaderNext]_vars

----------------------------------------------------------------------------
(* Properties *)

Targets(id) == {docs[id].extends[j].uri : j \in 1..Len(docs[id].extends)}
TargetSeq(id) == [j \in 1..Len(docs[id].extends) |-> docs[id].extends[j].uri]

(* The calls on the chain that passed the guard are for distinct identities. *)
ChainDistinct ==
    \A j, k \in 1..Len(stack) :
        (j < k /\ stack[j].rulesetUri # 0) => stack[j].rulesetUri # stack[k].rulesetUri

(* C1: for every extends graph, cycles and self-extension included, the    *)
(* chain of processRuleset calls never holds an identity twice (so it is   *)
(* no deeper than the number of identities plus one), and readRuleset      *)
(* settles: it returns a ruleset unless a collaborator failed.             *)
C1_Terminates ==
    /\ [](ChainDistinct /\ Len(stack) <= NumIds + 1)
    /\ <>(status = "returned" \/ (status = "failed" /\ error.kind # "none"))

(* A two-ruleset cycle with a self-extension in it has been resolved. *)
C1_Witness ==
    /\ status = "returned"
    /\ 2 \in Targets(1) /\ 1 \in Targets(2) /\ 2 \in Targets(2)

(* Fetches, calls and null returns of every identity in the current run. *)
C2_Counts ==
    \A id \in Ids :
        /\ fetched[id] <= 1
        /\ fetched[id] <= calls[id]
        /\ calls[id] > 0 => (id \in processedRulesets /\ nulls[id] = calls[id] - 1)

(* C2: in the run of one top-level URI the first call that reaches an      *)
(* identity records it, every later call for it returns null, and the      *)
(* step that returns null fetches, instantiates and merges nothing; no     *)
(* identity is fetched more than once.                                     *)
C2_GuardOnce ==
    /\ []C2_Counts
    /\ [][\A id \in Ids : nulls'[id] > nulls[id] =>
              /\ calls[id] >= 1
              /\ ret' = NullRet
              /\ stack' = Pop
              /\ UNCHANGED <<docs, fetched, processedRulesets, base>>]_vars

(* A run has finished in which some identity was fetched once and reached again. *)
C2_Witness ==
    /\ status = "returned"
    /\ \E id \in Ids : fetched[id] = 1 /\ nulls[id] >= 1

(* What a resolved ruleset holds of ruleset id: rules it defined, functions *)
(* it bound, exceptions it declared.                                        *)
Contributes(r, id) ==
    \/ \E n \in RuleNames : r.rules[n].owner = id
    \/ \E n \in FnNames : r.functions[n].source[1] = id
    \/ \E e \in r.exceptions : e.decl = id

(* C3: A (1) extends [B (2), C (3)] and both extend D (4): D is fetched   *)
(* once, the ruleset returned for edge B holds D's rule, the value returned *)
(* for edge C holds nothing of D, and the result holds D's rule.            *)
C3_DiamondDrop ==
    (/\ Len(uris) = 1
     /\ TargetSeq(1) = <<2, 3>> /\ TargetSeq(2) = <<4>> /\ docs[4].known
     /\ docs[3].known => TargetSeq(3) = <<4>>)
    => /\ fetched[4] <= 1
       /\ (Len(stack) = 1 /\ stack[1].pc = "await" /\ ret # NoRet) =>
             /\ stack[1].idx = 1 =>
                   (ret.kind = "ruleset" /\ ret.value.rules[4].owner = 4)
             /\ stack[1].idx = 2 => ~Contributes(ret.value, 4)
       /\ status = "returned" =>
             /\ fetched[4] = 1 /\ calls[4] >= 2 /\ nulls[4] = calls[4] - 1
             /\ result.rules[4].owner = 4
             /\ Cardinality({e \in result.exceptions : e.decl = 4}) = 1

(* Edge C of the diamond has returned to A. *)
C3_Witness ==
    /\ Len(uris) = 1
    /\ TargetSeq(1) = <<2, 3>> /\ TargetSeq(2) = <<4>> /\ TargetSeq(3) = <<4>>
    /\ Len(stack) = 1 /\ stack[1].pc = "await" /\ stack[1].idx = 2
    /\ ret.kind = "ruleset"

(* The severity the claim gives an extends entry under a caller severity. *)
EffectiveSeverity(callerSeverity, extended) ==
    IF callerSeverity # Undef THEN callerSeverity
    ELSE IF extended.sev # "none" THEN extended.sev
    ELSE "recommended"

C4_Frames ==
    \A k \in 1..Len(stack) :
        stack[k].pc = "await" =>
            LET eff == EffectiveSeverity(stack[k].severity,
                                         stack[k].ruleset.extends[stack[k].idx])
            IN /\ stack[k].parentSeverity = eff
               /\ k < Len(stack) => stack[k + 1].severity = eff

C4_OuterWins ==
    (/\ Len(docs[1].extends) >= 1 /\ docs[1].extends[1] = [uri |-> 2, sev |-> "off"]
     /\ Len(docs[2].extends) >= 1 /\ docs[2].extends[1] = [uri |-> 3, sev |-> "error"]
     /\ Len(stack) >= 3 /\ stack[1].severity = Undef /\ stack[1].idx = 1
     /\ stack[2].idx = 1)
    => stack[3].severity = "off"

(* C4: the severity passed to the recursive call of an extends entry and   *)
(* used as inheritance argument when its rules are merged is the caller's  *)
(* severity when defined, else the entry's own, else 'recommended'; under  *)
(* top --off--> X --error--> Y, Y is resolved with 'off'.                  *)
C4_SeverityTieBreak ==
    /\ [](C4_Frames /\ C4_OuterWins)
    /\ [][(Running /\ Top.pc = "await" /\ ret.kind = "ruleset" /\ Len(stack') = Len(stack)) =>
            \A n \in RuleNames :
                ret.value.rules[n] # NoRule =>
                    stack'[Len(stack)].rules[n].inh =
                        EffectiveSeverity(Top.severity, Top.ruleset.extends[Top.idx])]_vars

(* top --off--> X --error--> Y: the rules of Y have been merged into X. *)
C4_Witness ==
    /\ Len(docs[1].extends) >= 1 /\ docs[1].extends[1] = [uri |-> 2, sev |-> "off"]
    /\ Len(docs[2].extends) >= 1 /\ docs[2].extends[1] = [uri |-> 3, sev |-> "error"]
    /\ Len(stack) = 2 /\ stack[1].severity = Undef /\ stack[1].idx = 1
    /\ stack[2].idx = 2 /\ stack[2].rules[3].inh = "off"

(* C5 (as claimed): a declared function whose source cannot be located or  *)
(* read never fails readRuleset; it is reported through a warning and left *)
(* out, and every function whose source was read is in the table.          *)
C5_FunctionNonFatal ==
    /\ error.kind # "function-not-found"
    /\ \A k \in 1..Len(stack) :
          stack[k].pc = "functions" =>
            \A i \in DOMAIN stack[k].tasks :
                LET name == stack[k].ruleset.functions[i].name IN
                /\ stack[k].tasks[i] = "warned" => name \in warnings
                /\ stack[k].tasks[i] = "done" => stack[k].resolvedFunctions[name] # NoFn

(* C6 (as claimed): in a request of several URIs an error under one URI    *)
(* does not make readRuleset fail.                                         *)
C6_OtherUrisStillProcessed ==
    (Len(UriSet) > 1 /\ error.kind # "none") => status # "failed"

(* C6 (amended): an error under one top-level URI rejects readRuleset: no  *)
(* ruleset is returned, the loop stays at the failing URI and no step      *)
(* follows, so the URIs after it are never processed.                      *)
C6_ErrorAbortsRequest ==
    /\ [](error.kind # "none" =>
            /\ status = "failed"
            /\ uriIdx \in 1..Len(UriSet)
            /\ result = EmptyRuleset)
    /\ [][status = "running"]_vars

(* The first of two URIs failed; the second was never fetched. *)
C6_Witness ==
    /\ status = "failed"
    /\ Len(UriSet) = 2 /\ uriIdx = 1
    /\ ~docs[UriSet[2]].known

(* C7: an error thrown at any depth of the extends graph rejects every     *)
(* call on the chain and readRuleset in the same step: no call is left to  *)
(* process a later extends entry and no ruleset is returned.               *)
C7_ErrorPropagates ==
    /\ [](error.kind # "none" => (stack = <<>> /\ status = "failed" /\ ret = NoRet))
    /\ [](status = "failed" => (error.kind # "none" /\ result = EmptyRuleset))
    /\ [][error' # error =>
            (error.kind = "none" /\ error'.depth = Len(stack) /\ stack' = <<>>
             /\ status' = "failed" /\ UNCHANGED <<base, result, docs>>)]_vars

(* The target of the first extends entry of the top-level ruleset could not *)
(* be resolved two levels down; its second entry was never processed.       *)
C7_Witness ==
    /\ status = "failed" /\ error.depth = 3
    /\ Len(uris) = 1
    /\ Len(docs[1].extends) = 2
    /\ calls[docs[1].extends[2].uri] = 0

(* The table the tasks build when they complete in declaration order. *)
InOrderFunctions(f) ==
    [n \in FnNames |->
        LET S == {i \in DOMAIN f.tasks :
                    f.tasks[i] = "done" /\ f.ruleset.functions[i].name = n}
        IN IF S = {} THEN NoFn
           ELSE ResolvedFunction(f.rulesetUri, f.ruleset.functions[SetMax(S)])]

(* C8 (as claimed): whatever the order in which the source reads complete, *)
(* the function table is the one built in declaration order.               *)
C8_OrderIndependent ==
    \A k \in 1..Len(stack) :
        (/\ stack[k].pc = "functions"
         /\ \A i \in DOMAIN stack[k].tasks : stack[k].tasks[i] \in {"done", "warned"})
        => stack[k].resolvedFunctions = InOrderFunctions(stack[k])

(* The rule table a call holds after merging its own rules. *)
RulesAfterOwn == IF Len(stack') < Len(stack) THEN ret'.value.rules
                 ELSE stack'[Len(stack)].rules

C9_LaterEdgeWins ==
    (/\ Len(uris) = 1 /\ status = "returned"
     /\ TargetSeq(1) = <<2, 3>> /\ TargetSeq(2) = <<>>)
    => /\ result.rules[0].owner = 3
       /\ result.rules[0].inh = EffectiveSeverity(Undef, docs[1].extends[2])

(* C9: every merge of a resolved extends entry overwrites the entries of   *)
(* the rules it brings and leaves the others, the own rules overwrite what *)
(* was inherited; so under A extends [B, C], rule r of both is C's.        *)
C9_LastWriterWins ==
    /\ []C9_LaterEdgeWins
    /\ [][(Running /\ Top.pc = "await" /\ ret.kind = "ruleset" /\ Len(stack') = Len(stack)) =>
            \A n \in RuleNames :
                stack'[Len(stack)].rules[n].owner =
                    IF ret.value.rules[n] # NoRule THEN ret.value.rules[n].owner
                    ELSE Top.rules[n].owner]_vars
    /\ [][(Running /\ Top.pc = "extends" /\ Top.idx > Len(Top.ruleset.extends)
            /\ status' = "running") =>
            \A n \in RuleNames :
                RulesAfterOwn[n].owner =
                    IF OwnRules(Top.rulesetUri)[n] # NoRule THEN Top.rulesetUri
                    ELSE Top.rules[n].owner]_vars

(* A extends [B, C], both define r, and the read has returned. *)
C9_Witness ==
    /\ Len(uris) = 1 /\ status = "returned"
    /\ TargetSeq(1) = <<2, 3>> /\ TargetSeq(2) = <<>>
    /\ result.rules[0].owner = 3

(* The severity of a merged rule: its own when it pins one, else the one inherited. *)
Severity(rule) == IF rule.pin # "none" THEN rule.pin ELSE rule.inh

C10_Scenario ==
    /\ Len(uris) = 1 /\ status = "returned"
    /\ docs[1].extends = <<[uri |-> 2, sev |-> "off"]>>

WithoutSchemas(r) ==
    [r EXCEPT !.functions = [n \in FnNames |-> [r.functions[n] EXCEPT !.schema = "none"]]]

(* C11 (as claimed): a second readRuleset call for the same URIs over the  *)
(* same documents, every function source readable, returns the rules,      *)
(* functions and exceptions the first call returned.                       *)
C11_Idempotent ==
    (call = 2 /\ status = "returned" /\ uris = first.uris /\ warnings = {})
    => result = first.result

(* What holds of C11: the two results are identical apart from the schema *)
(* of a function declared twice, which is the one of the read that        *)
(* completed last (C8).                                                   *)
C11_IdenticalApartFromSchemas ==
    (call = 2 /\ status = "returned" /\ uris = first.uris /\ warnings = {})
    => WithoutSchemas(result) = WithoutSchemas(first.result)

C11_SecondCallReturned ==
    /\ call = 2 /\ status = "returned" /\ uris = first.uris /\ warnings = {}
    /\ Len(UriSet) = 2 /\ \E n \in FnNames : result.functions[n] # NoFn

(* C12: the step that merges a ruleset's own rules writes them with the    *)
(* severity passed into the call when one was passed and with              *)
(* 'recommended' otherwise; the call for a top-level URI is passed none,   *)
(* so its own rules are written with 'recommended'.                        *)
C12_DefaultSeverity ==
    /\ [](stack # <<>> => stack[1].severity = Undef)
    /\ [][(Running /\ Top.pc = "extends" /\ Top.idx > Len(Top.ruleset.extends)
            /\ status' = "running") =>
            \A n \in RuleNames :
                OwnRules(Top.rulesetUri)[n] # NoRule =>
                    /\ RulesAfterOwn[n].inh =
                          IF Top.severity # Undef THEN Top.severity ELSE "recommended"
                    /\ Len(stack) = 1 => RulesAfterOwn[n].inh = "recommended"]_vars

(* The call for an entry [ruleset 2, off] of a top-level ruleset has returned *)
(* its own rule merged with 'off'.                                            *)
C12_Witness ==
    /\ Len(stack) = 1 /\ stack[1].pc = "await" /\ stack[1].severity = Undef
    /\ stack[1].ruleset.extends[stack[1].idx] = [uri |-> 2, sev |-> "off"]
    /\ ret.kind = "ruleset"
    /\ ret.value.rules[2].owner = 2 /\ ret.value.rules[2].inh = "off"

(* Every generated source ends by assigning module.exports. *)
SourcesAssign ==
    \A q \in DOMAIN availableModules :
        /\ availableModules[q] # <<>>
        /\ availableModules[q][Len(availableModules[q])].op = "exports"

(* C13 (as claimed): in one loader instance, whatever require calls are    *)
(* made from outside and from the modules under evaluation, modules that   *)
(* require each other or themselves included, the source of a generated    *)
(* module is run at most once.                                             *)
C13_EvaluatedAtMostOnce ==
    SourcesAssign => \A q \in Generated : evaluations[q] <= 1

(* What holds of C13: a require call for a path that is a key of          *)
(* evaluatedModules returns the value stored there and runs no source.    *)
C13_RepeatReturnsCached ==
    [][(lastRequire' # lastRequire /\ lastRequire'.path \in DOMAIN evaluatedModules) =>
          /\ answer' = evaluatedModules[lastRequire'.path]
          /\ UNCHANGED <<evaluatedModules, evaluations, thrown>>]_vars

(* C14 (as claimed): a require call for a path that is not the built-in   *)
(* helper, not a key of evaluatedModules and not a key of the generated   *)
(* output throws the error naming the path, runs no source and leaves     *)
(* evaluatedModules as it was.                                            *)
C14_ModuleNotFound ==
    [][(/\ lastRequire' # lastRequire
        /\ lastRequire'.path # CreateArrayPath
        /\ lastRequire'.path \notin DOMAIN evaluatedModules
        /\ lastRequire'.path \notin DOMAIN availableModules) =>
          /\ thrown' = [kind |-> "does not exist", path |-> lastRequire'.path]
          /\ UNCHANGED <<evaluatedModules, evaluations>>]_vars

(* What holds of C14: the same for every path that is not a property name *)
(* inherited from Object.prototype either.                                *)
C14_ModuleNotFoundUnlessInherited ==
    [][(/\ lastRequire' # lastRequire
        /\ lastRequire'.path # CreateArrayPath
        /\ lastRequire'.path \notin DOMAIN evaluatedModules
        /\ lastRequire'.path \notin DOMAIN availableModules
        /\ lastRequire'.path \notin Inherited) =>
          /\ thrown' = [kind |-> "does not exist", path |-> lastRequire'.path]
          /\ loading' = NotLoading
          /\ UNCHANGED <<evaluatedModules, evaluations, answer>>]_vars

(* The step of the innermost call that ends its extends loop. *)
LeavesLoop ==
    /\ Running /\ Top.pc = "extends" /\ status' = "running"
    /\ Len(stack') <= Len(stack) /\ stack' # stack

(* C15: a call starts the call of an extends entry only when it holds no  *)
(* unmerged result, and it is the entry at its position in the list; the  *)
(* position advances by one, in the step that merges the result, when no  *)
(* deeper call is under way; the own rules are merged when the position   *)
(* is past the last entry; that step leaves the own rules with the        *)
(* ruleset's formats and the function table untouched, and the step that  *)
(* merges the functions changes neither rules nor exceptions.             *)
C15_Ordering ==
    /\ [](\A k \in 1..Len(stack) : k < Len(stack) => stack[k].pc = "await")
    /\ [][(stack # <<>> /\ Len(stack') = Len(stack) + 1) =>
            /\ Top.pc = "extends" /\ ret = NoRet
            /\ Top.idx \in 1..Len(Top.ruleset.extends)
            /\ stack'[Len(stack)] = [Top EXCEPT !.pc = "await",
                                               !.parentSeverity = stack'[Len(stack)].parentSeverity]
            /\ stack'[Len(stack')].uri = Top.ruleset.extends[Top.idx].uri
            /\ stack'[Len(stack')].baseUri = Top.rulesetUri]_vars
    /\ [][\A k \in 1..Min(Len(stack), Len(stack')) :
            (stack'[k].idx # stack[k].idx /\ stack[k].idx > 0) =>
                /\ k = Len(stack) /\ Len(stack') = Len(stack)
                /\ stack[k].pc = "await" /\ ret # NoRet /\ ret' = NoRet
                /\ stack'[k].idx = stack[k].idx + 1
                /\ stack'[k].pc = "extends"]_vars
    /\ [][LeavesLoop =>
            /\ Top.idx = Len(Top.ruleset.extends) + 1
            /\ \A n \in RuleNames :
                  OwnRules(Top.rulesetUri)[n] # NoRule =>
                      RulesAfterOwn[n].formats = Top.rulesetUri
            /\ Len(stack') = Len(stack) =>
                  /\ stack'[Len(stack)].pc = "functions"
                  /\ stack'[Len(stack)].functions = Top.functions]_vars
    /\ [][(Running /\ Top.pc = "functions" /\ Len(stack') < Len(stack)
            /\ status' = "running") =>
            /\ ret'.value.rules = Top.rules
            /\ ret'.value.exceptions = Top.exceptions]_vars

(* A ruleset with two extends entries, the first with an entry of its own, *)
(* and a function has been resolved.                                       *)
C15_Witness ==
    /\ status = "returned" /\ Len(uris) = 1
    /\ Len(docs[1].extends) = 2 /\ docs[1].extends[1].uri = 2
    /\ Len(docs[2].extends) = 1 /\ docs[2].extends[1].uri = 3
    /\ Len(docs[docs[1].extends[2].uri].functions) = 1
    /\ result.rules[3].owner = 3

(* The calls on the chain above call k whose entry under way has the [uri, *)
(* severity] form.                                                         *)
ForcedAbove(k) ==
    {j \in 1..(k - 1) : stack[j].ruleset.extends[stack[j].idx].sev # "none"}

(* C16 (as claimed): a call whose severity argument is defined has, on the *)
(* chain of calls from the top-level ruleset down to it, an extends entry  *)
(* that carries a severity.                                                *)
C16_DefinedOnlyIfForced ==
    \A k \in 1..Len(stack) : stack[k].severity # Undef => ForcedAbove(k) # {}

(* C16 (amended): the severity argument is undefined in the call for a    *)
(* top-level URI only; in every call below it is the severity of the      *)
(* top-level ruleset's entry under way, 'recommended' when that entry is  *)
(* bare, whatever the entries further down carry.                         *)
C16_DecidedByTopEntry ==
    \A k \in 1..Len(stack) :
        /\ stack[k].severity = Undef <=> k = 1
        /\ k > 1 => stack[k].severity =
                        EffectiveSeverity(Undef, stack[1].ruleset.extends[stack[1].idx])

(* Under a bare entry of the top-level ruleset, the call for an entry     *)
(* [ruleset 3, off] of ruleset 2 is under way.                            *)
C16_Witness ==
    /\ Len(stack) = 3
    /\ stack[1].ruleset.extends[stack[1].idx] = [uri |-> 2, sev |-> "none"]
    /\ stack[2].ruleset.extends[stack[2].idx] = [uri |-> 3, sev |-> "off"]
    /\ stack[3].severity = "recommended"

(* The second call reads alone a URI that the first call, for several    *)
(* URIs, resolved after the first of them; every function source was     *)
(* readable.                                                             *)
ReadAlone(u) ==
    /\ call = 2 /\ uris = <<u>> /\ warnings = {}
    /\ Len(Dedup(first.uris)) > 1 /\ Dedup(first.uris)[1] # u
    /\ first.resolved[u] # NoRet
    /\ resolved[u] # NoRet

(* C17 (as claimed): the ruleset resolved for a top-level URI of a request *)
(* for several URIs equals the ruleset resolved when that URI is read      *)
(* alone.                                                                  *)
C17_EqualsReadAlone ==
    \A u \in Ids : ReadAlone(u) => resolved[u] = first.resolved[u]

(* What holds of C17: the guard is empty when the call for a top-level    *)
(* URI starts; the ruleset resolved for the URI equals the one resolved   *)
(* when it is read alone apart from the schema of a function declared     *)
(* twice (C8); every resolved ruleset is assigned onto the accumulator in *)
(* request order, its keys over the earlier ones, and the accumulator is  *)
(* what is returned.                                                      *)
C17_IndependentApartFromSchemas ==
    /\ [](\A u \in Ids : ReadAlone(u) =>
            /\ resolved[u].kind = first.resolved[u].kind
            /\ WithoutSchemas(resolved[u].value) = WithoutSchemas(first.resolved[u].value))
    /\ [][(stack = <<>> /\ Len(stack') = 1) =>
            (processedRulesets' = {} /\ stack'[1].baseUri = UriSet[uriIdx]
             /\ stack'[1].uri = UriSet[uriIdx])]_vars
    /\ [][(status = "running" /\ stack = <<>> /\ ret.kind = "ruleset") =>
            /\ uriIdx' = uriIdx + 1
            /\ \A n \in RuleNames :
                  base'.rules[n] = IF ret.value.rules[n] # NoRule THEN ret.value.rules[n]
                                   ELSE base.rules[n]
            /\ \A n \in FnNames :
                  base'.functions[n] = IF ret.value.functions[n] # NoFn
                                       THEN ret.value.functions[n] ELSE base.functions[n]
            /\ base'.exceptions = base.exceptions \cup ret.value.exceptions]_vars
    /\ [](status = "returned" => result = base)

C17_ReadAloneReturned ==
    /\ status = "returned" /\ ReadAlone(2)
    /\ first.resolved[1].value.rules[2].owner = 2

(* The exception entries the calls under way and the result hold. *)
HeldExceptions ==
    result.exceptions \cup ret.value.exceptions
        \cup UNION {stack[k].exceptions : k \in 1..Len(stack)}

(* C18 (as claimed): every exception entry is scoped to the ruleset that  *)
(* declared it in its own except field, at every depth of the extends     *)
(* graph.                                                                 *)
C18_ScopedToDeclarer ==
    \A e \in HeldExceptions : e.scope = e.decl

(* What holds of C18: an entry is scoped to the baseUri of the call that  *)
(* resolved its ruleset: the ruleset itself when it is a top-level URI,   *)
(* a ruleset that extends it otherwise.                                   *)
C18_ScopedToBaseUri ==
    \A e \in HeldExceptions :
        \/ e.scope = e.decl /\ e.decl \in Range(uris)
        \/ e.scope # e.decl /\ e.decl \in Targets(e.scope)

(* C19: the call readRuleset makes for a top-level URI finds the guard    *)
(* empty and passes it, so it never resolves with null; when readRuleset  *)
(* returns, every top-level URI has resolved with a ruleset and that      *)
(* ruleset's own rule is in the result.                                   *)
C19_TopLevelNeverNull ==
    /\ []((status = "running" /\ stack = <<>>) => ret.kind # "null")
    /\ [](\A u \in Ids : resolved[u].kind # "null")
    /\ [][(Len(stack) = 1 /\ Top.pc = "find" /\ status' = "running") =>
            /\ processedRulesets = {}
            /\ Len(stack') = 1 /\ stack'[1].pc = "generate"
            /\ processedRulesets' = {Top.uri}]_vars
    /\ [](status = "returned" =>
            \A i \in 1..Len(UriSet) :
                /\ resolved[UriSet[i]].kind = "ruleset"
                /\ result.rules[UriSet[i]].owner = UriSet[i])

(* Two URIs were read and the second had already been visited as an       *)
(* extends entry of the first.                                            *)
C19_Witness ==
    /\ status = "returned" /\ call = 1
    /\ UriSet = <<1, 2>> /\ 2 \in Targets(1)
    /\ resolved[2].kind = "ruleset"

====
